---- MODULE Spec2Model ----
(***************************************************************************)
(* A model of @darkwolf/base32crockford (lib/index.cjs): the alphabet      *)
(* table, the byte codec (text form and byte-buffer form) and the integer  *)
(* codec.                                                                  *)
(*                                                                         *)
(* Representation.  A character is its UTF-16 code unit, a string is the   *)
(* sequence of its code units, a Uint8Array is the sequence of its bytes.  *)
(* A JavaScript value that a function type-checks is a record [t, v] with  *)
(* t its type.  A null-prototype lookup object is a function whose DOMAIN  *)
(* is the set of keys assigned.  The library is a set of pure functions    *)
(* over an immutable table, so the state is the last call made and what it *)
(* produced.                                                               *)
(***************************************************************************)
EXTENDS Integers, Sequences, FiniteSets

VARIABLES call, outcome

vars == <<call, outcome>>

(***************************************************************************)
(* Program constants                                                       *)
(***************************************************************************)
BASE == 32

BITS_PER_CHAR == 5

\* '-'
NEGATIVE_CHAR == 45

\* '0123456789ABCDEFGHJKMNPQRSTVWXYZ'
ALPHABET ==
  <<48, 49, 50, 51, 52, 53, 54, 55, 56, 57,
    65, 66, 67, 68, 69, 70, 71, 72, 74, 75, 77, 78,
    80, 81, 82, 83, 84, 86, 87, 88, 89, 90>>

(***************************************************************************)
(* JavaScript values and outcomes                                          *)
(***************************************************************************)
\* what reading an absent key of a lookup object gives
Undefined == -1

JsUndefined == [t |-> "undefined", v |-> <<>>]

JsString(s) == [t |-> "string", v |-> s]

JsBytes(b) == [t |-> "Uint8Array", v |-> b]

JsNumber(n) == [t |-> "number", v |-> n]

NoError == [name |-> "none", char |-> -1, index |-> -1]

Return(v) == [kind |-> "return", value |-> v, error |-> NoError]

Throw(name, char, index) ==
  [kind |-> "throw", value |-> <<>>,
   error |-> [name |-> name, char |-> char, index |-> index]]

\* a call that has not run yet
Pending == [kind |-> "pending", value |-> <<>>, error |-> NoError]

Returned(o) == o.kind = "return"

Threw(o, name) == o.kind = "throw" /\ o.error.name = name

\* a null-prototype object keyed by characters (or their codes): an absent
\* key reads as undefined
Get(obj, key) == IF key \in DOMAIN obj THEN obj[key] ELSE Undefined

MathMax(a, b) == IF a >= b THEN a ELSE b

MathMin(a, b) == IF a <= b THEN a ELSE b

(***************************************************************************)
(* Alphabet table                                                          *)
(***************************************************************************)
\* variant: the loop body without its last branch, the lowercase alias
AssignedKeysNoCaseAlias(alphabet, i) ==
  LET charCode == alphabet[i + 1]
  IN  IF charCode = 48 THEN {charCode, 79, 111}
      ELSE IF charCode = 49 THEN {charCode, 73, 105, 76, 108}
      ELSE {charCode}

\* the keys that iteration i (0-based) of the loop of createAlphabetLookups
\* assigns the value i to, in lookup (by character) and in baseMapLookup (by
\* character code): the character itself and the aliases its branch adds
AssignedKeys(alphabet, i) ==
  LET charCode == alphabet[i + 1]
  IN  IF charCode = 48 THEN {charCode, 79, 111}
      ELSE IF charCode = 49 THEN {charCode, 73, 105, 76, 108}
      ELSE IF charCode > 64 THEN {charCode, charCode + 32}
      ELSE {charCode}

SetMax(S) == CHOOSE x \in S : \A y \in S : y <= x

\* The loop assigns in the order i = 0, 1, ..., 31, so a key holds the value
\* of the last iteration that assigned it, and reads as undefined if none did.
LastAssigned(alphabet, key) ==
  LET writers == {i \in 0..(BASE - 1) : key \in AssignedKeys(alphabet, i)}
  IN  IF writers = {} THEN Undefined ELSE SetMax(writers)

\* lookup is keyed by the character and baseMapLookup by its code, assigned
\* side by side: as functions of the code unit they are the same table
createAlphabetLookups(alphabet) ==
  LET keys == UNION {AssignedKeys(alphabet, i) : i \in 0..(BASE - 1)}
      table == [key \in keys |-> LastAssigned(alphabet, key)]
  IN  [lookup |-> table,
       baseMap |-> [k \in 1..BASE |-> alphabet[k] % 256],
       baseMapLookup |-> table]

\* the instance the constructor builds from an alphabet toAlphabet accepted
Instance(alphabet) ==
  LET lookups == createAlphabetLookups(alphabet)
  IN  [alphabet |-> alphabet,
       alphabetLookup |-> lookups.lookup,
       baseMap |-> lookups.baseMap,
       baseMapLookup |-> lookups.baseMapLookup]

\* the module's default instance: new Base32Crockford()
base32Crockford == Instance(ALPHABET)

\* the scan of toAlphabet from index i; seen is uniqueCharsLookup's key set
RECURSIVE AlphabetScan(_, _, _)
AlphabetScan(value, i, seen) ==
  IF i < BASE
    THEN LET char == value[i + 1]
         IN  IF Get(base32Crockford.alphabetLookup, char) = Undefined
               THEN Throw("SyntaxError", char, i)
             ELSE IF char \in seen
               THEN Throw("SyntaxError", char, i)
             ELSE AlphabetScan(value, i + 1, seen \cup {char})
    ELSE Return(value)

\* variant: only a short alphabet is a RangeError
toAlphabetNoLengthCheck(value) ==
  IF value.t = "undefined" THEN Return(ALPHABET)
  ELSE IF value.t # "string" THEN Throw("TypeError", -1, -1)
  ELSE IF Len(value.v) < BASE THEN Throw("RangeError", -1, -1)
  ELSE AlphabetScan(value.v, 0, {})

\* toAlphabet(value)
toAlphabet(value) ==
  IF value.t = "undefined" THEN Return(ALPHABET)
  ELSE IF value.t # "string" THEN Throw("TypeError", -1, -1)
  ELSE IF Len(value.v) # BASE THEN Throw("RangeError", -1, -1)
  ELSE AlphabetScan(value.v, 0, {})

\* new Base32Crockford(alphabet)
Construct(alphabet) ==
  LET a == toAlphabet(alphabet)
  IN  IF Returned(a) THEN Return(Instance(a.value)) ELSE a

(***************************************************************************)
(* Int32 bit operations on the non-negative values the codec reaches       *)
(***************************************************************************)
RECURSIVE BitAnd(_, _)
BitAnd(a, b) ==
  IF a = 0 \/ b = 0 THEN 0
  ELSE (a % 2) * (b % 2) + 2 * BitAnd(a \div 2, b \div 2)

RECURSIVE BitOr(_, _)
BitOr(a, b) ==
  IF a = 0 THEN b
  ELSE IF b = 0 THEN a
  ELSE (IF a % 2 = 1 \/ b % 2 = 1 THEN 1 ELSE 0)
         + 2 * BitOr(a \div 2, b \div 2)

ShiftRight(x, n) == x \div (2 ^ n)

ShiftLeft(x, n) == x * (2 ^ n)

(***************************************************************************)
(* Typed arrays and slice indices                                          *)
(***************************************************************************)
\* new Uint8Array(length): zero-filled, of fixed length
NewUint8Array(length) == [k \in 1..length |-> 0]

\* array[index] = value on a Uint8Array: the value is stored modulo 256, and
\* a store at an index that is not below the length does nothing
TypedArraySet(array, index, value) ==
  IF index >= 0 /\ index < Len(array)
    THEN [array EXCEPT ![index + 1] = value % 256]
    ELSE array

\* variant: a negative argument is not counted from the end
RelativeIndexNotFromEnd(arg, length, default) ==
  IF arg.t = "undefined" THEN default
  ELSE IF arg.v < 0 THEN 0
  ELSE MathMin(arg.v, length)

\* start and end of encode/decode: an undefined argument keeps the default,
\* a negative one counts from the end, and both are clamped to [0, length].
\* The arguments modelled are undefined and the integers, on which
\* TypesToIntegerOrInfinity is the identity.
RelativeIndex(arg, length, default) ==
  IF arg.t = "undefined" THEN default
  ELSE IF arg.v < 0 THEN MathMax(0, length + arg.v)
  ELSE MathMin(arg.v, length)

(***************************************************************************)
(* Byte codec: encode                                                      *)
(***************************************************************************)
\* the loop variables of [encodeToStringSymbol] before the first byte
EncodeToStringStart == [result |-> <<>>, shift |-> 3, carry |-> 0]

\* variant: the first symbol of an iteration without the carried bits
EncodeToStringStepNoCarry(this, st, byte) ==
  LET number == ShiftRight(byte, st.shift)
      r1 == Append(st.result, this.alphabet[BitAnd(number, 31) + 1])
      second == st.shift > BITS_PER_CHAR
      shift1 == IF second THEN st.shift - BITS_PER_CHAR ELSE st.shift
      r2 == IF second
              THEN Append(r1,
                     this.alphabet[BitAnd(ShiftRight(byte, shift1), 31) + 1])
              ELSE r1
      shift2 == BITS_PER_CHAR - shift1
  IN  [result |-> r2,
       shift |-> 8 - shift2,
       carry |-> ShiftLeft(byte, shift2)]

\* one iteration of the loop of [encodeToStringSymbol]
EncodeToStringStep(this, st, byte) ==
  LET number == BitOr(st.carry, ShiftRight(byte, st.shift))
      r1 == Append(st.result, this.alphabet[BitAnd(number, 31) + 1])
      second == st.shift > BITS_PER_CHAR
      shift1 == IF second THEN st.shift - BITS_PER_CHAR ELSE st.shift
      r2 == IF second
              THEN Append(r1,
                     this.alphabet[BitAnd(ShiftRight(byte, shift1), 31) + 1])
              ELSE r1
      shift2 == BITS_PER_CHAR - shift1
  IN  [result |-> r2,
       shift |-> 8 - shift2,
       carry |-> ShiftLeft(byte, shift2)]

RECURSIVE EncodeToStringLoop(_, _, _, _, _)
EncodeToStringLoop(this, input, i, endIndex, st) ==
  IF i < endIndex
    THEN EncodeToStringLoop(this, input, i + 1, endIndex,
                            EncodeToStringStep(this, st, input[i + 1]))
    ELSE st

\* variant: no flush
EncodeToStringFlushNever(this, st) == st.result

\* after the loop of [encodeToStringSymbol]
EncodeToStringFlush(this, st) ==
  IF st.shift # 3
    THEN Append(st.result, this.alphabet[BitAnd(st.carry, 31) + 1])
    ELSE st.result

\* this[encodeToStringSymbol](input, start, end), input a Uint8Array's bytes
EncodeToStringImpl(this, input, start, end) ==
  LET length == Len(input)
      startIndex == RelativeIndex(start, length, 0)
      endIndex == RelativeIndex(end, length, length)
  IN  EncodeToStringFlush(this,
        EncodeToStringLoop(this, input, startIndex, endIndex,
                           EncodeToStringStart))

\* this.encodeToString(input, start, end)
EncodeToString(this, input, start, end) ==
  IF input.t # "Uint8Array" THEN Throw("TypeError", -1, -1)
  ELSE Return(EncodeToStringImpl(this, input.v, start, end))

\* the loop variables of encode before the first byte
EncodeStart(newLength) ==
  [result |-> NewUint8Array((newLength * 8 + 4) \div BITS_PER_CHAR),
   shift |-> 3, carry |-> 0, index |-> 0]

\* one iteration of the loop of encode
EncodeStep(this, st, byte) ==
  LET number == BitOr(st.carry, ShiftRight(byte, st.shift))
      r1 == TypedArraySet(st.result, st.index,
                          this.baseMap[BitAnd(number, 31) + 1])
      second == st.shift > BITS_PER_CHAR
      shift1 == IF second THEN st.shift - BITS_PER_CHAR ELSE st.shift
      r2 == IF second
              THEN TypedArraySet(r1, st.index + 1,
                     this.baseMap[BitAnd(ShiftRight(byte, shift1), 31) + 1])
              ELSE r1
      shift2 == BITS_PER_CHAR - shift1
  IN  [result |-> r2,
       shift |-> 8 - shift2,
       carry |-> ShiftLeft(byte, shift2),
       index |-> IF second THEN st.index + 2 ELSE st.index + 1]

RECURSIVE EncodeLoop(_, _, _, _, _)
EncodeLoop(this, input, i, endIndex, st) ==
  IF i < endIndex
    THEN EncodeLoop(this, input, i + 1, endIndex,
                    EncodeStep(this, st, input[i + 1]))
    ELSE st

\* after the loop of encode
EncodeFlush(this, st) ==
  IF st.shift # 3
    THEN TypedArraySet(st.result, st.index,
                       this.baseMap[BitAnd(st.carry, 31) + 1])
    ELSE st.result

\* this.encode(input, start, end)
Encode(this, input, start, end) ==
  IF input.t # "Uint8Array" THEN Throw("TypeError", -1, -1)
  ELSE LET length == Len(input.v)
           startIndex == RelativeIndex(start, length, 0)
           endIndex == RelativeIndex(end, length, length)
           newLength == MathMax(0, endIndex - startIndex)
       IN  Return(EncodeFlush(this,
             EncodeLoop(this, input.v, startIndex, endIndex,
                        EncodeStart(newLength))))

(***************************************************************************)
(* Byte codec: decode                                                      *)
(***************************************************************************)
\* variant: a result buffer of ceil(5n / 8) bytes
DecodeStartCeil(newLength) ==
  [result |-> NewUint8Array((newLength * BITS_PER_CHAR + 7) \div 8),
   shift |-> 8, carry |-> 0, index |-> 0]

\* the loop variables of decode and [decodeFromStringSymbol] before the
\* first symbol
DecodeStart(newLength) ==
  [result |-> NewUint8Array((newLength * BITS_PER_CHAR) \div 8),
   shift |-> 8, carry |-> 0, index |-> 0]

\* one iteration of either decode loop, past the lookup of the symbol
DecodeStep(st, charIndex) ==
  LET number == BitAnd(charIndex, 255)
      shift == st.shift - BITS_PER_CHAR
  IN  IF shift > 0
        THEN [result |-> st.result,
              shift |-> shift,
              carry |-> BitOr(st.carry, ShiftLeft(number, shift)),
              index |-> st.index]
      ELSE IF shift < 0
        THEN [result |-> TypedArraySet(st.result, st.index,
                           BitOr(st.carry, ShiftRight(number, -shift))),
              shift |-> shift + 8,
              carry |-> BitAnd(ShiftLeft(number, shift + 8), 255),
              index |-> st.index + 1]
      ELSE [result |-> TypedArraySet(st.result, st.index,
                         BitOr(st.carry, number)),
            shift |-> 8,
            carry |-> 0,
            index |-> st.index + 1]

\* variant: an absent symbol is read as 0 instead of thrown
RECURSIVE DecodeLoopUnchecked(_, _, _, _, _)
DecodeLoopUnchecked(table, input, i, endIndex, st) ==
  IF i < endIndex
    THEN LET charIndex == Get(table, input[i + 1])
         IN  DecodeLoopUnchecked(table, input, i + 1, endIndex,
               DecodeStep(st, IF charIndex = Undefined THEN 0 ELSE charIndex))
    ELSE [end |-> "done", st |-> st, thrown |-> Pending]

\* either decode loop from index i: it ends with the loop variables, or
\* throws at the first symbol the table does not hold
RECURSIVE DecodeLoop(_, _, _, _, _)
DecodeLoop(table, input, i, endIndex, st) ==
  IF i < endIndex
    THEN LET charIndex == Get(table, input[i + 1])
         IN  IF charIndex = Undefined
               THEN [end |-> "throw", st |-> st,
                     thrown |-> Throw("SyntaxError", input[i + 1], i)]
               ELSE DecodeLoop(table, input, i + 1, endIndex,
                               DecodeStep(st, charIndex))
    ELSE [end |-> "done", st |-> st, thrown |-> Pending]

\* after either decode loop
DecodeFlush(st) ==
  IF st.shift # 8 /\ st.carry # 0
    THEN TypedArraySet(st.result, st.index, st.carry)
    ELSE st.result

\* the body shared, statement for statement, by decode (table baseMapLookup)
\* and [decodeFromStringSymbol] (table alphabetLookup)
DecodeRun(table, input, start, end) ==
  LET length == Len(input)
      startIndex == RelativeIndex(start, length, 0)
      endIndex == RelativeIndex(end, length, length)
      newLength == MathMax(0, endIndex - startIndex)
  IN  DecodeLoop(table, input, startIndex, endIndex, DecodeStart(newLength))

DecodeImpl(table, input, start, end) ==
  LET run == DecodeRun(table, input, start, end)
  IN  IF run.end = "throw" THEN run.thrown ELSE Return(DecodeFlush(run.st))

\* this.decodeFromString(input, start, end)
DecodeFromString(this, input, start, end) ==
  IF input.t # "string" THEN Throw("TypeError", -1, -1)
  ELSE DecodeImpl(this.alphabetLookup, input.v, start, end)

\* this.decode(input, start, end)
Decode(this, input, start, end) ==
  IF input.t # "Uint8Array" THEN Throw("TypeError", -1, -1)
  ELSE DecodeImpl(this.baseMapLookup, input.v, start, end)

(***************************************************************************)
(* Integers.  A safe integer or a BigInt is a sign and a magnitude; the    *)
(* magnitude is the sequence of its base-2^24 digits, least significant    *)
(* first and without leading zeros, so that 2^53 - 1 and beyond are in     *)
(* reach.  The arithmetic is exact, as that of the code is on BigInts and, *)
(* up to 2^53 - 1, on numbers.                                             *)
(***************************************************************************)
LIMB == 2 ^ 24

RECURSIVE NatNormalize(_)
NatNormalize(m) ==
  IF m # <<>> /\ m[Len(m)] = 0
    THEN NatNormalize(SubSeq(m, 1, Len(m) - 1))
    ELSE m

\* number % BASE, bigInt % 32n (BASE divides 2^24)
NatModBase(m) == IF m = <<>> THEN 0 ELSE m[1] % BASE

\* MathFloor(number / BASE), bigInt / 32n
NatDivBase(m) ==
  NatNormalize(
    [k \in 1..Len(m) |->
       (m[k] \div BASE)
         + (IF k < Len(m) THEN (m[k + 1] % BASE) * (LIMB \div BASE) ELSE 0)])

RECURSIVE NatMulAddFrom(_, _, _)
NatMulAddFrom(m, k, carry) ==
  IF k > Len(m)
    THEN IF carry = 0 THEN <<>> ELSE <<carry>>
    ELSE LET t == m[k] * BASE + carry
         IN  <<t % LIMB>> \o NatMulAddFrom(m, k + 1, t \div LIMB)

\* result * BASE + index, result * 32n + BigInt(index)
NatMulBaseAdd(m, index) == NatNormalize(NatMulAddFrom(m, 1, index))

RECURSIVE NatLessFrom(_, _, _)
NatLessFrom(a, b, k) ==
  IF k = 0 THEN FALSE
  ELSE IF a[k] # b[k] THEN a[k] < b[k]
  ELSE NatLessFrom(a, b, k - 1)

NatLess(a, b) ==
  IF Len(a) # Len(b) THEN Len(a) < Len(b) ELSE NatLessFrom(a, b, Len(a))

Integer(neg, mag) == [neg |-> neg, mag |-> mag]

\* a < b on signed values (-0 compares as 0)
IntLess(a, b) ==
  LET an == a.neg /\ a.mag # <<>>
      bn == b.neg /\ b.mag # <<>>
  IN  IF an /\ ~bn THEN TRUE
      ELSE IF ~an /\ bn THEN FALSE
      ELSE IF an THEN NatLess(b.mag, a.mag)
      ELSE NatLess(a.mag, b.mag)

\* 2^53 - 1 and -(2^53 - 1)
NumberMAX_SAFE_INTEGER == Integer(FALSE, <<16777215, 16777215, 31>>)

NumberMIN_SAFE_INTEGER == Integer(TRUE, <<16777215, 16777215, 31>>)

(***************************************************************************)
(* Integer codec                                                           *)
(***************************************************************************)
\* the while loop of encodeInt and of encodeBigInt
RECURSIVE EncodeDigits(_, _, _)
EncodeDigits(this, number, result) ==
  IF number # <<>>
    THEN EncodeDigits(this, NatDivBase(number),
                      <<this.alphabet[NatModBase(number) + 1]>> \o result)
    ELSE result

\* variant: the sign is not written
EncodeIntUnsigned(this, value) ==
  IF IntLess(value, NumberMIN_SAFE_INTEGER) THEN Throw("RangeError", -1, -1)
  ELSE IF IntLess(NumberMAX_SAFE_INTEGER, value)
    THEN Throw("RangeError", -1, -1)
  ELSE IF value.mag = <<>> THEN Return(<<this.alphabet[1]>>)
  ELSE Return(EncodeDigits(this, value.mag, <<>>))

\* this.encodeInt(value), value an integer other than -0
EncodeInt(this, value) ==
  IF IntLess(value, NumberMIN_SAFE_INTEGER) THEN Throw("RangeError", -1, -1)
  ELSE IF IntLess(NumberMAX_SAFE_INTEGER, value)
    THEN Throw("RangeError", -1, -1)
  ELSE IF value.mag = <<>> THEN Return(<<this.alphabet[1]>>)
  ELSE LET isNegative == value.neg
           result == EncodeDigits(this, value.mag, <<>>)
       IN  Return(IF isNegative THEN <<NEGATIVE_CHAR>> \o result ELSE result)

\* this.encodeBigInt(value), value a BigInt
EncodeBigInt(this, value) ==
  IF value.mag = <<>> THEN Return(<<this.alphabet[1]>>)
  ELSE LET isNegative == value.neg
           result == EncodeDigits(this, value.mag, <<>>)
       IN  Return(IF isNegative THEN <<NEGATIVE_CHAR>> \o result ELSE result)

\* the for loop of decodeInt and of decodeBigInt from index i
RECURSIVE DecodeDigits(_, _, _, _)
DecodeDigits(this, string, i, result) ==
  IF i < Len(string)
    THEN LET char == string[i + 1]
             index == Get(this.alphabetLookup, char)
         IN  IF index = Undefined
               THEN Throw("SyntaxError", char, i)
               ELSE DecodeDigits(this, string, i + 1,
                                 NatMulBaseAdd(result, index))
    ELSE Return(result)

\* this.decodeInt(string); the result is exact up to 2^53 - 1
DecodeInt(this, string) ==
  LET length == Len(string)
      isNegative == length > 0 /\ string[1] = NEGATIVE_CHAR
      digits == DecodeDigits(this, string,
                             IF isNegative /\ length > 1 THEN 1 ELSE 0, <<>>)
  IN  IF ~Returned(digits) THEN digits
      ELSE Return(Integer(isNegative /\ digits.value # <<>>, digits.value))

\* this.decodeBigInt(string); -0n is 0n
DecodeBigInt(this, string) ==
  LET length == Len(string)
      isNegative == length > 0 /\ string[1] = NEGATIVE_CHAR
      digits == DecodeDigits(this, string,
                             IF isNegative /\ length > 1 THEN 1 ELSE 0, <<>>)
  IN  IF ~Returned(digits) THEN digits
      ELSE Return(Integer(isNegative /\ digits.value # <<>>, digits.value))

(***************************************************************************)
(* Inputs of the alphabet operations                                       *)
(***************************************************************************)
\* how many characters a candidate alphabet may be short of, or beyond, 32
MaxLenDelta == 1

Reverse(s) == [k \in 1..Len(s) |-> s[Len(s) + 1 - k]]

Range(s) == {s[k] : k \in 1..Len(s)}

\* the aliases the default instance accepts: O o I i L l and lowercase letters
AliasChars ==
  {79, 111, 73, 105, 76, 108}
    \cup {c + 32 : c \in {x \in Range(ALPHABET) : x > 64}}

\* characters the default instance does not accept: 'U' 'u' '@' '-'
InvalidChars == {85, 117, 64, 45}

CandidateChars == Range(ALPHABET) \cup AliasChars \cup InvalidChars

BaseAlphabets == {ALPHABET, Reverse(ALPHABET)}

AlphabetInputs ==
  {JsUndefined, JsNumber(32)}
    \cup {JsString([a EXCEPT ![p] = c]) :
            a \in BaseAlphabets, p \in 1..BASE, c \in CandidateChars}
    \cup {JsString(SubSeq(a, 1, BASE - d)) :
            a \in BaseAlphabets, d \in 1..MaxLenDelta}
    \cup {JsString(a \o [k \in 1..d |-> c]) :
            a \in BaseAlphabets, d \in 1..MaxLenDelta, c \in AliasChars}

(***************************************************************************)
(* Inputs of the byte codec                                                *)
(***************************************************************************)
\* longest byte sequence encoded whole
MaxBytes == 6

\* longest symbol sequence decoded whole
MaxSyms == 8

\* longest string of canonical, alias and unaccepted characters decoded
MaxText == 2

\* longest input encoded or decoded with explicit start and end
MaxSliceLen == 3

SeqsUpTo(S, n) == UNION {[1..k -> S] : k \in 0..n}

\* 0x00 0x80 0xA5 0xFF
ByteVals == {0, 128, 165, 255}

\* '0' (0), 'N' (21), 'Z' (31)
SymChars == {48, 78, 90}

\* canonical symbols, their aliases, and the unaccepted 'U' '@' '-'
TextChars ==
  {48, 79, 111, 49, 73, 105, 76, 108, 65, 97, 90, 122, 85, 64, 45}

\* 0x00 0xA5 0xFF, and '0' 'Z' with the unaccepted 'U'
SliceBytes == {0, 165, 255}

SliceChars == {48, 90, 85}

SliceArgs ==
  {JsUndefined} \cup {JsNumber(n) : n \in (-(MaxSliceLen + 1))..(MaxSliceLen + 1)}

\* byte sequences encoded whole: every short sequence of ByteVals and every
\* single byte
WholeBytes == SeqsUpTo(ByteVals, MaxBytes) \cup {<<x>> : x \in 0..255}

\* symbol sequences decoded whole
WholeTexts == SeqsUpTo(SymChars, MaxSyms) \cup SeqsUpTo(TextChars, MaxText)

(***************************************************************************)
(* Inputs of the integer codec                                             *)
(***************************************************************************)
\* the integers -MaxInt..MaxInt are all encoded
MaxInt == 70

\* longest string of sign, canonical, alias and unaccepted characters decoded
MaxDigits == 3

\* magnitudes around the powers of 32 and of 2^24, up to 2^53 - 1
EdgeMags ==
  {<<1023>>, <<1024>>, <<1025>>, <<32767>>, <<32768>>, <<1048575>>,
   <<16777215>>, <<0, 1>>, <<1, 1>>, <<16777215, 16777215>>, <<0, 0, 1>>,
   <<11259375, 4886718, 18>>, <<16777214, 16777215, 31>>,
   <<16777215, 16777215, 31>>}

\* magnitudes from 2^53 on
WideMags ==
  {<<0, 0, 32>>, <<1, 0, 32>>, <<5, 0, 65536>>,
   <<16777215, 16777215, 16777215, 255>>, <<0, 0, 0, 0, 1>>}

Mags == {IF n = 0 THEN <<>> ELSE <<n>> : n \in 0..MaxInt} \cup EdgeMags \cup WideMags

\* every sign and magnitude but -0
IntInputs == {Integer(neg, mag) : neg \in BOOLEAN, mag \in Mags} \ {Integer(TRUE, <<>>)}

\* '-' '0' 'O' 'o' '1' 'l' 'A' 'a' 'Z' 'z' and the unaccepted 'U'
DigitChars == {45, 48, 79, 111, 49, 108, 65, 97, 90, 122, 85}

IntTexts == SeqsUpTo(DigitChars, MaxDigits)

(***************************************************************************)
(* Specifications.  A behaviour is one call: the initial state holds the   *)
(* call a caller is about to make, and the step is the call running to its *)
(* return or its throw.                                                    *)
(***************************************************************************)
Call(op, args) == [op |-> op, args |-> args]

InitAlphabet ==
  /\ outcome = Pending
  /\ \E alphabet \in AlphabetInputs : call = Call("new", <<alphabet>>)

DoConstruct ==
  /\ call.op = "new"
  /\ outcome = Pending
  /\ outcome' = Construct(call.args[1])
  /\ UNCHANGED call

NextAlphabet == DoConstruct

SpecAlphabet == InitAlphabet /\ [][NextAlphabet]_vars

\* encodeToString and encode get the same inputs (and a string, which they
\* reject); so do decodeFromString and decode, each with the other's kind of
\* input as the one it rejects
InitBytes ==
  /\ outcome = Pending
  /\ \/ \E op \in {"encodeToString", "encode"} :
          \/ \E b \in WholeBytes :
               call = Call(op, <<JsBytes(b), JsUndefined, JsUndefined>>)
          \/ \E b \in SeqsUpTo(SliceBytes, MaxSliceLen) :
               \E start \in SliceArgs, end \in SliceArgs :
                 call = Call(op, <<JsBytes(b), start, end>>)
          \/ call = Call(op, <<JsString(<<48>>), JsUndefined, JsUndefined>>)
     \/ \E s \in WholeTexts :
          \/ call = Call("decodeFromString",
                         <<JsString(s), JsUndefined, JsUndefined>>)
          \/ call = Call("decode", <<JsBytes(s), JsUndefined, JsUndefined>>)
     \/ \E s \in SeqsUpTo(SliceChars, MaxSliceLen) :
          \E start \in SliceArgs, end \in SliceArgs :
            \/ call = Call("decodeFromString", <<JsString(s), start, end>>)
            \/ call = Call("decode", <<JsBytes(s), start, end>>)
     \/ call = Call("decodeFromString",
                    <<JsBytes(<<48>>), JsUndefined, JsUndefined>>)
     \/ call = Call("decode", <<JsString(<<48>>), JsUndefined, JsUndefined>>)

\* the free functions are the methods bound to the default instance
DoEncodeToString ==
  /\ call.op = "encodeToString"
  /\ outcome = Pending
  /\ outcome' = EncodeToString(base32Crockford,
                               call.args[1], call.args[2], call.args[3])
  /\ UNCHANGED call

DoEncode ==
  /\ call.op = "encode"
  /\ outcome = Pending
  /\ outcome' = Encode(base32Crockford,
                       call.args[1], call.args[2], call.args[3])
  /\ UNCHANGED call

DoDecodeFromString ==
  /\ call.op = "decodeFromString"
  /\ outcome = Pending
  /\ outcome' = DecodeFromString(base32Crockford,
                                 call.args[1], call.args[2], call.args[3])
  /\ UNCHANGED call

DoDecode ==
  /\ call.op = "decode"
  /\ outcome = Pending
  /\ outcome' = Decode(base32Crockford,
                       call.args[1], call.args[2], call.args[3])
  /\ UNCHANGED call

NextBytes ==
  \/ DoEncodeToString
  \/ DoEncode
  \/ DoDecodeFromString
  \/ DoDecode

SpecBytes == InitBytes /\ [][NextBytes]_vars

InitInt ==
  /\ outcome = Pending
  /\ \/ \E op \in {"encodeInt", "encodeBigInt"} :
          \E n \in IntInputs : call = Call(op, <<n>>)
     \/ \E op \in {"decodeInt", "decodeBigInt"} :
          \E s \in IntTexts : call = Call(op, <<s>>)

DoEncodeInt ==
  /\ call.op = "encodeInt"
  /\ outcome = Pending
  /\ outcome' = EncodeInt(base32Crockford, call.args[1])
  /\ UNCHANGED call

DoDecodeInt ==
  /\ call.op = "decodeInt"
  /\ outcome = Pending
  /\ outcome' = DecodeInt(base32Crockford, call.args[1])
  /\ UNCHANGED call

DoEncodeBigInt ==
  /\ call.op = "encodeBigInt"
  /\ outcome = Pending
  /\ outcome' = EncodeBigInt(base32Crockford, call.args[1])
  /\ UNCHANGED call

DoDecodeBigInt ==
  /\ call.op = "decodeBigInt"
  /\ outcome = Pending
  /\ outcome' = DecodeBigInt(base32Crockford, call.args[1])
  /\ UNCHANGED call

NextInt ==
  \/ DoEncodeInt
  \/ DoDecodeInt
  \/ DoEncodeBigInt
  \/ DoDecodeBigInt

SpecInt == InitInt /\ [][NextInt]_vars

\* decodeInt and decodeFromString on strings of canonical symbols, aliases and
\* unaccepted characters, and on every printable ASCII character alone
AliasTexts == SeqsUpTo(TextChars, MaxText) \cup {<<c>> : c \in 32..126}

InitAlias ==
  /\ outcome = Pending
  /\ \E s \in AliasTexts :
       \/ call = Call("decodeInt", <<s>>)
       \/ call = Call("decodeFromString",
                      <<JsString(s), JsUndefined, JsUndefined>>)

NextAlias ==
  \/ DoDecodeInt
  \/ DoDecodeFromString

SpecAlias == InitAlias /\ [][NextAlias]_vars

(***************************************************************************)
(* What the properties are stated with                                     *)
(***************************************************************************)
\* the call has run
Applied == outcome # Pending

IsEncodeCall == call.op \in {"encodeToString", "encode"}

IsDecodeCall == call.op \in {"decodeFromString", "decode"}

\* the call's input is of the type the operation takes
WellTyped ==
  call.args[1].t =
    (IF call.op \in {"decodeFromString"} THEN "string" ELSE "Uint8Array")

NoSlice == call.args[2] = JsUndefined /\ call.args[3] = JsUndefined

\* slice semantics, as the documentation of start and end states them
SliceBound(arg, length, default) ==
  IF arg = JsUndefined THEN default
  ELSE IF arg.v < 0
    THEN (IF length + arg.v > 0 THEN length + arg.v ELSE 0)
  ELSE (IF arg.v < length THEN arg.v ELSE length)

SliceFrom == SliceBound(call.args[2], Len(call.args[1].v), 0)

SliceTo == SliceBound(call.args[3], Len(call.args[1].v), Len(call.args[1].v))

\* the elements at the indices [SliceFrom, SliceTo): none when from >= to
SlicedInput == SubSeq(call.args[1].v, SliceFrom + 1, SliceTo)

\* the operation of the call, on another input and without start and end
SameOp(input) ==
  IF call.op = "encodeToString"
    THEN EncodeToString(base32Crockford, JsBytes(input),
                        JsUndefined, JsUndefined)
  ELSE IF call.op = "encode"
    THEN Encode(base32Crockford, JsBytes(input), JsUndefined, JsUndefined)
  ELSE IF call.op = "decodeFromString"
    THEN DecodeFromString(base32Crockford, JsString(input),
                          JsUndefined, JsUndefined)
  ELSE Decode(base32Crockford, JsBytes(input), JsUndefined, JsUndefined)

\* the characters Crockford's Base32 accepts with the default alphabet: the
\* 32 symbols, O o for 0, I i L l for 1, and the lowercase of each letter
DefaultAccepted ==
  Range(ALPHABET) \cup {79, 111, 73, 105, 76, 108}
    \cup {c + 32 : c \in {x \in Range(ALPHABET) : x >= 65}}

\* the canonical form of a character: uppercase, O as 0, I and L as 1
CanonChar(c) ==
  LET upper == IF c >= 97 /\ c <= 122 THEN c - 32 ELSE c
  IN  IF upper = 79 THEN 48
      ELSE IF upper = 73 \/ upper = 76 THEN 49
      ELSE upper

Canon(s) == [k \in 1..Len(s) |-> CanonChar(s[k])]

\* the reference repacking: bit j (from 0) of the most-significant-bit-first
\* bit string of the bytes, 0 past its end
BitAt(bytes, j) ==
  IF j < 8 * Len(bytes)
    THEN (bytes[(j \div 8) + 1] \div (2 ^ (7 - (j % 8)))) % 2
    ELSE 0

\* the 5-bit value of bits 5k .. 5k+4
GroupAt(bytes, k) ==
  16 * BitAt(bytes, 5 * k) + 8 * BitAt(bytes, 5 * k + 1)
    + 4 * BitAt(bytes, 5 * k + 2) + 2 * BitAt(bytes, 5 * k + 3)
    + BitAt(bytes, 5 * k + 4)

ReferenceEncode(bytes) ==
  [k \in 1..((Len(bytes) * 8 + 4) \div 5) |->
     ALPHABET[GroupAt(bytes, k - 1) + 1]]

\* how the decode loop of the call ended
DecodeRunOfCall ==
  DecodeRun(IF call.op = "decode" THEN base32Crockford.baseMapLookup
                                  ELSE base32Crockford.alphabetLookup,
            call.args[1].v, call.args[2], call.args[3])

HasRepeat(s) == \E i, j \in 1..Len(s) : i < j /\ s[i] = s[j]

IsSafe(n) ==
  /\ ~IntLess(n, NumberMIN_SAFE_INTEGER)
  /\ ~IntLess(NumberMAX_SAFE_INTEGER, n)

(***************************************************************************)
(* C1  Byte round-trip.  With the default codec, encoding any byte         *)
(* sequence succeeds, and decoding what it returned gives the sequence     *)
(* back: decodeFromString after encodeToString, decode after encode.       *)
(***************************************************************************)
C1_ByteRoundTrip ==
  (Applied /\ IsEncodeCall /\ WellTyped /\ NoSlice) =>
    /\ Returned(outcome)
    /\ (call.op = "encodeToString" =>
          DecodeFromString(base32Crockford, JsString(outcome.value),
                           JsUndefined, JsUndefined)
            = Return(call.args[1].v))
    /\ (call.op = "encode" =>
          Decode(base32Crockford, JsBytes(outcome.value),
                 JsUndefined, JsUndefined)
            = Return(call.args[1].v))

\* encode returned for six bytes 0xA5 0xFF 0x00 0x80 0xFF 0xA5, and decode
\* gives them back
C1_Witness ==
  /\ call = Call("encode", <<JsBytes(<<165, 255, 0, 128, 255, 165>>),
                             JsUndefined, JsUndefined>>)
  /\ Returned(outcome)
  /\ Len(outcome.value) = 10
  /\ Decode(base32Crockford, JsBytes(outcome.value), JsUndefined, JsUndefined)
       = Return(<<165, 255, 0, 128, 255, 165>>)

(***************************************************************************)
(* C2  Integer round-trip.  encodeInt succeeds on every safe integer and   *)
(* decodeInt of its result is that integer; encodeBigInt succeeds on every *)
(* BigInt and decodeBigInt of its result is that BigInt.                   *)
(***************************************************************************)
C2_IntRoundTrip ==
  /\ (Applied /\ call.op = "encodeInt" /\ IsSafe(call.args[1])) =>
       /\ Returned(outcome)
       /\ DecodeInt(base32Crockford, outcome.value) = Return(call.args[1])
  /\ (Applied /\ call.op = "encodeBigInt") =>
       /\ Returned(outcome)
       /\ DecodeBigInt(base32Crockford, outcome.value) = Return(call.args[1])

\* encodeInt returned the sign and eleven symbols for -(2^53 - 1), and
\* decodeInt gives the integer back
C2_Witness ==
  /\ call = Call("encodeInt", <<NumberMIN_SAFE_INTEGER>>)
  /\ Returned(outcome)
  /\ Len(outcome.value) = 12
  /\ outcome.value[1] = NEGATIVE_CHAR
  /\ DecodeInt(base32Crockford, outcome.value) = Return(NumberMIN_SAFE_INTEGER)

(***************************************************************************)
(* C3  Encode is the reference repacking.  For an n-byte input both forms  *)
(* return floor((8n + 4) / 5) symbols, symbol k being the alphabet symbol  *)
(* of bits 5k .. 5k+4 of the input's MSB-first bit string, zero-padded;    *)
(* and each iteration of the loop emits one or two symbols, the flush      *)
(* after it at most one.                                                   *)
(***************************************************************************)
C3_EncodeIsReference ==
  (Applied /\ IsEncodeCall /\ WellTyped /\ NoSlice) =>
    LET bytes == call.args[1].v
        n == Len(bytes)
        textAfter(k) ==
          Len(EncodeToStringLoop(base32Crockford, bytes, 0, k,
                                 EncodeToStringStart).result)
        bytesAfter(k) ==
          EncodeLoop(base32Crockford, bytes, 0, k, EncodeStart(n)).index
    IN  /\ Returned(outcome)
        /\ Len(outcome.value) = (n * 8 + 4) \div 5
        /\ outcome.value = ReferenceEncode(bytes)
        /\ call.op = "encodeToString" =>
             /\ \A k \in 1..n : textAfter(k) - textAfter(k - 1) \in {1, 2}
             /\ Len(outcome.value) - textAfter(n) \in {0, 1}
        /\ call.op = "encode" =>
             /\ \A k \in 1..n : bytesAfter(k) - bytesAfter(k - 1) \in {1, 2}
             /\ Len(outcome.value) - bytesAfter(n) \in {0, 1}

\* encodeToString returned the ten symbols "ZZZZZZZZZW" for six bytes 0xFF:
\* the loop emitted nine (the sixth byte at shift 8) and the flush one
C3_Witness ==
  /\ call = Call("encodeToString",
                 <<JsBytes(<<255, 255, 255, 255, 255, 255>>),
                   JsUndefined, JsUndefined>>)
  /\ Returned(outcome)
  /\ outcome.value = <<90, 90, 90, 90, 90, 90, 90, 90, 90, 87>>
  /\ Len(EncodeToStringLoop(base32Crockford, call.args[1].v, 0, 6,
                            EncodeToStringStart).result) = 9

(***************************************************************************)
(* C4  Invalid input rejection.  If the range decoded holds a character    *)
(* that is neither a symbol of the default alphabet nor an alias, decode   *)
(* throws a SyntaxError naming the first such character and its index and  *)
(* returns nothing; otherwise it returns.                                  *)
(***************************************************************************)
C4_InvalidInputRejected ==
  (Applied /\ IsDecodeCall /\ WellTyped) =>
    LET input == call.args[1].v
        bad == {i \in SliceFrom..(SliceTo - 1) :
                  input[i + 1] \notin DefaultAccepted}
    IN  IF bad = {}
          THEN Returned(outcome)
          ELSE LET first == CHOOSE i \in bad : \A j \in bad : i <= j
               IN  /\ Threw(outcome, "SyntaxError")
                   /\ outcome.error.index = first
                   /\ outcome.error.char = input[first + 1]
                   /\ outcome.value = <<>>

\* decodeFromString("ZU", ...) threw for 'U' at index 1, after a byte's
\* worth of bits had not yet been read
C4_Witness ==
  /\ call.op = "decodeFromString"
  /\ call.args[1] = JsString(<<90, 85>>)
  /\ NoSlice
  /\ Threw(outcome, "SyntaxError")
  /\ outcome.error.index = 1
  /\ outcome.error.char = 85

(***************************************************************************)
(* C5  Alias acceptance.  With the default alphabet every string of        *)
(* symbols and aliases is accepted; O and o decode as 0, I i L l as 1, a   *)
(* lowercase letter as its uppercase; and whatever decodeInt or            *)
(* decodeFromString accept decodes to what its canonical form decodes to.  *)
(***************************************************************************)
C5_AliasAcceptance ==
  (Applied /\ call.op \in {"decodeInt", "decodeFromString"}) =>
    LET s == IF call.op = "decodeInt" THEN call.args[1] ELSE call.args[1].v
        again(t) ==
          IF call.op = "decodeInt"
            THEN DecodeInt(base32Crockford, t)
            ELSE DecodeFromString(base32Crockford, JsString(t),
                                  JsUndefined, JsUndefined)
    IN  /\ (\A k \in 1..Len(s) : s[k] \in DefaultAccepted) =>
             Returned(outcome)
        /\ Returned(outcome) => outcome = again(Canon(s))
        /\ (call.op = "decodeInt" /\ s \in {<<79>>, <<111>>, <<48>>}) =>
             outcome = Return(Integer(FALSE, <<>>))
        /\ (call.op = "decodeInt"
              /\ s \in {<<73>>, <<105>>, <<76>>, <<108>>, <<49>>}) =>
             outcome = Return(Integer(FALSE, <<1>>))
        /\ (call.op = "decodeInt" /\ Len(s) = 1
              /\ s[1] >= 97 /\ s[1] <= 122 /\ s[1] - 32 \in Range(ALPHABET)) =>
             outcome = DecodeInt(base32Crockford, <<s[1] - 32>>)

\* decodeInt("oz") returned 31, as decodeInt("0Z") does
C5_Witness ==
  /\ call = Call("decodeInt", <<(<<111, 122>>)>>)
  /\ outcome = Return(Integer(FALSE, <<31>>))
  /\ outcome = DecodeInt(base32Crockford, <<48, 90>>)

(***************************************************************************)
(* C6  Alphabet validation.  As claimed: a 31- or 33-character alphabet,   *)
(* and a 32-character alphabet with a repeated character, are rejected     *)
(* with a ValidationError.                                                 *)
(***************************************************************************)
C6_Original ==
  (Applied /\ call.op = "new" /\ call.args[1].t = "string") =>
    LET value == call.args[1].v
    IN  (\/ Len(value) \in {BASE - 1, BASE + 1}
         \/ (Len(value) = BASE /\ HasRepeat(value))) =>
          Threw(outcome, "ValidationError")

(***************************************************************************)
(* C6, as amended.  A 31- or 33-character alphabet is rejected with a      *)
(* RangeError and a 32-character alphabet with a repeated character with   *)
(* a SyntaxError; in both cases the constructor throws and no instance is  *)
(* produced.                                                               *)
(***************************************************************************)
C6_AlphabetValidation ==
  (Applied /\ call.op = "new" /\ call.args[1].t = "string") =>
    LET value == call.args[1].v
    IN  /\ Len(value) \in {BASE - 1, BASE + 1} =>
             (Threw(outcome, "RangeError") /\ outcome.value = <<>>)
        /\ (Len(value) = BASE /\ HasRepeat(value)) =>
             (Threw(outcome, "SyntaxError") /\ outcome.value = <<>>)

\* the default alphabet with its 'Z' replaced by a second 'A' was rejected
\* at index 31 with a SyntaxError
C6_Witness ==
  /\ call = Call("new", <<JsString([ALPHABET EXCEPT ![32] = 65])>>)
  /\ Threw(outcome, "SyntaxError")
  /\ outcome.error.index = 31
  /\ outcome.error.char = 65

(***************************************************************************)
(* C7  Canonical symbols keep their index.  As claimed: in the tables of   *)
(* every alphabet the constructor accepts, each symbol of the alphabet     *)
(* maps to its own index, in the lookup by character and in the lookup by  *)
(* character code.                                                         *)
(***************************************************************************)
C7_CanonicalKeepsIndex ==
  (Applied /\ call.op = "new" /\ Returned(outcome)) =>
    \A i \in 0..(BASE - 1) :
      /\ Get(outcome.value.alphabetLookup, outcome.value.alphabet[i + 1]) = i
      /\ Get(outcome.value.baseMapLookup, outcome.value.alphabet[i + 1]) = i

(***************************************************************************)
(* C8  Slice semantics.  Each of the four operations processes exactly     *)
(* the elements at the indices [s, e) that start and end denote: what it   *)
(* returns is what it returns for that sub-sequence alone (a decode error  *)
(* carries the index in the whole input); start = -2 is start = L - 2 for  *)
(* L >= 2, and the range [0, 0) encodes to nothing.                        *)
(***************************************************************************)
C8_SliceSemantics ==
  (Applied /\ (IsEncodeCall \/ IsDecodeCall) /\ WellTyped) =>
    LET alone == SameOp(SlicedInput)
        L == Len(call.args[1].v)
    IN  /\ Returned(alone) => outcome = alone
        /\ ~Returned(alone) =>
             /\ Threw(outcome, alone.error.name)
             /\ outcome.error.char = alone.error.char
             /\ outcome.error.index = alone.error.index + SliceFrom
        /\ (call.op = "encodeToString" /\ L >= 2
              /\ call.args[2] = JsNumber(-2) /\ call.args[3] = JsUndefined) =>
             outcome = EncodeToString(base32Crockford, call.args[1],
                                      JsNumber(L - 2), JsUndefined)
        /\ (IsEncodeCall /\ call.args[2] = JsNumber(0)
              /\ call.args[3] = JsNumber(0)) =>
             outcome = Return(<<>>)

\* encodeToString of 0x00 0xA5 0xFF with start -2 and end 3 returned the
\* encoding of 0xA5 0xFF, "MQZG"
C8_Witness ==
  /\ call = Call("encodeToString",
                 <<JsBytes(<<0, 165, 255>>), JsNumber(-2), JsNumber(3)>>)
  /\ outcome = Return(<<77, 81, 90, 71>>)
  /\ outcome = SameOp(<<165, 255>>)

(***************************************************************************)
(* C9  Decode output length.  Decoding a range of n accepted symbols       *)
(* returns exactly floor(5n / 8) bytes, in both forms.                     *)
(***************************************************************************)
C9_DecodeLength ==
  (Applied /\ IsDecodeCall /\ WellTyped /\ Returned(outcome)) =>
    Len(outcome.value) = (5 * Len(SlicedInput)) \div 8

\* decode of the three symbols "ZZZ" returned the single byte 0xFF: the
\* seven bits left over were dropped
C9_Witness ==
  /\ call = Call("decode", <<JsBytes(<<90, 90, 90>>),
                             JsUndefined, JsUndefined>>)
  /\ outcome = Return(<<255>>)

(***************************************************************************)
(* C10  Decode final flush.  As claimed: when the loop of decode ends with *)
(* shift # 8 and carry # 0, the byte sequence returned holds one more      *)
(* byte, equal to carry, after the bytes completed inside the loop.        *)
(***************************************************************************)
C10_FinalFlushEmitted ==
  (Applied /\ IsDecodeCall /\ WellTyped /\ Returned(outcome)) =>
    LET st == DecodeRunOfCall.st
    IN  (st.shift # 8 /\ st.carry # 0) =>
          /\ Len(outcome.value) = st.index + 1
          /\ outcome.value[st.index + 1] = st.carry

====
